---- MODULE Spec2Model ----
(***************************************************************************)
(* PingTools: the sliding-window loss/latency estimator (Pinger) and the   *)
(* client's TCP reconnect / dual-probe scheduler (Client), modelled from   *)
(* src/src/Client.cpp, and the server's session registry (Server),         *)
(* modelled from src/src/Server.cpp.                                       *)
(*                                                                         *)
(* Time is counted in steps of TimeUnit milliseconds.  uint32_t values are *)
(* kept modulo WordMod (a scaled-down 2^32) and size_t values modulo       *)
(* SizeMod = WordMod^2 (a scaled-down 2^64), so that the unsigned          *)
(* wrap-around of the code's subtractions and casts is part of the model.  *)
(* Names that start with g_ are history: the code does not hold them,      *)
(* they record what the code did, and to which probe.                      *)
(***************************************************************************)
EXTENDS Integers, Sequences, FiniteSets, TLC

\* ------------------------------------------------------------------ bounds
\* uint32_t arithmetic is done modulo WordMod.
WordMod == 8
\* No estimator sends a probe once m_uNextSeq has reached MaxSeq.
MaxSeq == 4
\* The clock of the estimator harness stops at PingerMaxTime.
PingerMaxTime == 3
\* Largest ping interval / timeout the estimator harness constructs.
MaxInterval == 2
MaxTimeout == 3

SizeMod == WordMod * WordMod
UInt32Max == WordMod - 1

None == [none |-> TRUE]

Max(a, b) == IF a >= b THEN a ELSE b
Min(a, b) == IF a <= b THEN a ELSE b

VARIABLES
    now,                      \* RunLoop::Now(), the monotonic clock
    est,                      \* the estimators: name -> Pinger
    m_iTcpChannelState,       \* Client
    m_ullNextTryConnectTime,  \* Client
    m_ullNextPintStatTime,    \* Client
    m_stTcpSocket,            \* Client: the TCP socket object
    m_stUdpSocket,            \* Client: the UDP socket object
    g_failAt,                 \* history: when the TCP channel failed last
    g_probes,                 \* history: estimator name -> what became of its probes
    g_ticked,                 \* history: OnTick has run at this value of now
    m_stSessions,             \* Server: the registry, a vector of sessions
    g_accepted,               \* history: connections the server accepted so far
    ev                        \* history: the handler that ran last and what it did

client == <<m_iTcpChannelState, m_ullNextTryConnectTime, m_ullNextPintStatTime,
            m_stTcpSocket, m_stUdpSocket, g_failAt>>
server == <<m_stSessions, g_accepted>>
vars == <<now, est, g_probes, g_ticked, client, server, ev>>

\* -------------------------------------------------------------- PingPacket
PingPacket(seq, sendTime) == [Seq |-> seq, SendTime |-> sendTime]

\* ------------------------------------------------------------------ Pinger
\* Pinger::Pinger and the member initialisers.
Pinger(interval, timeout) ==
    [ m_uInterval        |-> interval,
      m_uTimeout         |-> timeout,
      m_ullNextSendTime  |-> 0,
      m_uNextSeq         |-> 0,
      m_stPingWindow     |-> << >>,
      m_uTotalPacket     |-> 0,
      m_uPacketLost      |-> 0,
      m_uAvailablePacket |-> 0,
      m_uLatencyTotal    |-> 0,
      m_uMaxLatency      |-> 0,
      m_uMinLatency      |-> UInt32Max ]

\* Mutant: the evicted entry is counted lost whether or not it was acknowledged.
PopFront_CountsAcked(pg) ==
    [pg EXCEPT
        !.m_uPacketLost  = (@ + 1) % WordMod,
        !.m_stPingWindow = Tail(@)]

\* Mutant: the evicted entry is dropped without being counted lost.
PopFront_NeverLost(pg) ==
    [pg EXCEPT !.m_stPingWindow = Tail(@)]

\* One pass of the timeout loop of Pinger::Update.
PopFront(pg) ==
    [pg EXCEPT
        !.m_uPacketLost  = IF ~pg.m_stPingWindow[1] THEN (@ + 1) % WordMod ELSE @,
        !.m_stPingWindow = Tail(@)]

\* Mutant: > in place of >= in the loop condition.
WindowTimedOut_Strict(pg) ==
    /\ pg.m_stPingWindow # << >>
    /\ Len(pg.m_stPingWindow) * pg.m_uInterval > pg.m_uTimeout

\* The loop condition of Pinger::Update.
WindowTimedOut(pg) ==
    /\ pg.m_stPingWindow # << >>
    /\ Len(pg.m_stPingWindow) * pg.m_uInterval >= pg.m_uTimeout

\* The timeout loop of Pinger::Update.
RECURSIVE HandleTimeout(_)
HandleTimeout(pg) ==
    IF WindowTimedOut(pg) THEN HandleTimeout(PopFront(pg)) ELSE pg

\* Mutant: the send does not move m_ullNextSendTime on by the interval.
SendPing_NoInterval(pg, t) ==
    [pg EXCEPT
        !.m_uNextSeq        = (@ + 1) % WordMod,
        !.m_stPingWindow    = Append(@, FALSE),
        !.m_uTotalPacket    = (@ + 1) % WordMod,
        !.m_ullNextSendTime = t]

\* The send part of Pinger::Update.
SendPing(pg, t) ==
    [pg EXCEPT
        !.m_uNextSeq        = (@ + 1) % WordMod,
        !.m_stPingWindow    = Append(@, FALSE),
        !.m_uTotalPacket    = (@ + 1) % WordMod,
        !.m_ullNextSendTime = t + pg.m_uInterval]

\* Pinger::Update: the estimator afterwards and the returned Optional<PingPacket>.
Update(pg, t) ==
    IF pg.m_ullNextSendTime <= t
    THEN [pinger |-> SendPing(HandleTimeout(pg), t),
          ret    |-> PingPacket(pg.m_uNextSeq, t)]
    ELSE [pinger |-> pg, ret |-> None]

\* Mutant: the offset is one slot too far to the back.
RecvOffset_OffByOne(pg, packet) ==
    (Len(pg.m_stPingWindow) - ((pg.m_uNextSeq - packet.Seq) % WordMod) + 1) % SizeMod

\* The window offset Pinger::Recv computes: uint32_t subtraction, then size_t.
RecvOffset(pg, packet) ==
    (Len(pg.m_stPingWindow) - ((pg.m_uNextSeq - packet.Seq) % WordMod)) % SizeMod

\* Mutant: the early return on an already acknowledged slot is missing.
RecvIgnores_NoDupCheck(pg, packet) ==
    RecvOffset(pg, packet) >= Len(pg.m_stPingWindow)

\* The two early returns of Pinger::Recv.
RecvIgnores(pg, packet) ==
    \/ RecvOffset(pg, packet) >= Len(pg.m_stPingWindow)
    \/ pg.m_stPingWindow[RecvOffset(pg, packet) + 1]

\* Pinger::Recv; t is RunLoop::Now().
Recv(pg, packet, t) ==
    IF RecvIgnores(pg, packet) THEN pg
    ELSE LET offset  == RecvOffset(pg, packet)
             elapsed == (t - packet.SendTime) % WordMod
         IN [pg EXCEPT
                !.m_stPingWindow[offset + 1] = TRUE,
                !.m_uAvailablePacket = (@ + 1) % WordMod,
                !.m_uLatencyTotal    = (@ + elapsed) % WordMod,
                !.m_uMaxLatency      = Max(@, elapsed),
                !.m_uMinLatency      = Min(@, elapsed)]

\* Pinger::GetStatistic.
GetStatistic(pg) ==
    [ TotalPacket     |-> pg.m_uTotalPacket,
      PacketLost      |-> pg.m_uPacketLost,
      AvailablePacket |-> pg.m_uAvailablePacket,
      LatencyTotal    |-> pg.m_uLatencyTotal,
      MaxLatency      |-> IF pg.m_uAvailablePacket = 0 THEN 0 ELSE pg.m_uMaxLatency,
      MinLatency      |-> IF pg.m_uAvailablePacket = 0 THEN 0 ELSE pg.m_uMinLatency ]

\* Mutant: the window survives the reset.
Reset_KeepsWindow(pg) ==
    [pg EXCEPT
        !.m_ullNextSendTime  = 0,
        !.m_uTotalPacket     = 0,
        !.m_uPacketLost      = 0,
        !.m_uAvailablePacket = 0,
        !.m_uLatencyTotal    = 0,
        !.m_uMaxLatency      = 0,
        !.m_uMinLatency      = UInt32Max]

\* Mutant: m_ullNextSendTime survives the reset.
Reset_KeepsNextSendTime(pg) ==
    [pg EXCEPT
        !.m_stPingWindow     = << >>,
        !.m_uTotalPacket     = 0,
        !.m_uPacketLost      = 0,
        !.m_uAvailablePacket = 0,
        !.m_uLatencyTotal    = 0,
        !.m_uMaxLatency      = 0,
        !.m_uMinLatency      = UInt32Max]

\* Pinger::Reset.
Reset(pg) ==
    [pg EXCEPT
        !.m_stPingWindow     = << >>,
        !.m_ullNextSendTime  = 0,
        !.m_uTotalPacket     = 0,
        !.m_uPacketLost      = 0,
        !.m_uAvailablePacket = 0,
        !.m_uLatencyTotal    = 0,
        !.m_uMaxLatency      = 0,
        !.m_uMinLatency      = UInt32Max]

\* ------------------------------------------------- history of the probes
\* History value: no such time.
NoTime == 0 - 1

\* sent: every Seq sent; wseq: the Seq of the probe pushed into each window
\* slot; lostOf[s], ackedOf[s]: how often m_uPacketLost, m_uAvailablePacket
\* were incremented for probe s.
NoHistory ==
    [ sent    |-> {},
      wseq    |-> << >>,
      lostOf  |-> [s \in 0..MaxSeq |-> 0],
      ackedOf |-> [s \in 0..MaxSeq |-> 0] ]

\* The timeout loop of Pinger::Update, as the history sees it: each pass drops
\* the front probe and books the increment of m_uPacketLost to it.
RECURSIVE TimeoutHistory(_, _)
TimeoutHistory(pg, h) ==
    IF WindowTimedOut(pg)
    THEN TimeoutHistory(PopFront(pg),
             [h EXCEPT !.lostOf[h.wseq[1]] =
                           @ + ((PopFront(pg).m_uPacketLost - pg.m_uPacketLost) % WordMod),
                       !.wseq = Tail(@)])
    ELSE h

\* Pinger::Update, as the history sees it.
UpdateHistory(pg, h, t) ==
    IF Update(pg, t).ret = None THEN h
    ELSE [TimeoutHistory(pg, h) EXCEPT
             !.wseq = Append(@, Update(pg, t).ret.Seq),
             !.sent = @ \cup {Update(pg, t).ret.Seq}]

\* The probe whose window slot Pinger::Recv marks, NoProbe if it returns early.
NoProbe == 0 - 1
Credited(pg, h, packet) ==
    IF RecvIgnores(pg, packet) THEN NoProbe ELSE h.wseq[RecvOffset(pg, packet) + 1]

\* Pinger::Recv, as the history sees it: the increment of m_uAvailablePacket is
\* booked to the probe of the slot at the offset Recv computes.
RecvHistory(pg, h, packet, t) ==
    IF Credited(pg, h, packet) = NoProbe THEN h
    ELSE [h EXCEPT !.ackedOf[Credited(pg, h, packet)] =
             @ + ((Recv(pg, packet, t).m_uAvailablePacket - pg.m_uAvailablePacket) % WordMod)]

\* Pinger::Reset, as the history sees it.
ResetHistory(h) == [h EXCEPT !.wseq = << >>]

\* ------------------------------------------------------------ Client state
STATE_TCP_NOT_CONNECT == "STATE_TCP_NOT_CONNECT"
STATE_TCP_CONNECTING == "STATE_TCP_CONNECTING"
STATE_TCP_CONNECTED == "STATE_TCP_CONNECTED"

\* TcpSocket::Create(): a socket object that no other one equals.  connecting: a
\* Connect is outstanding; reading: StartRead was called; g_failed (history): a
\* connect failure, an error or an EOF was reported on this object.
TcpSocketCreate(id) ==
    [id |-> id, connecting |-> FALSE, reading |-> FALSE, closed |-> FALSE,
     g_failed |-> FALSE]

\* UdpSocket::Create().
UdpSocketCreate == [reading |-> FALSE]

\* The members of Client after Client::Client, and m_stUdpSocket.StartRead() of Run.
ClientInit ==
    /\ m_iTcpChannelState = STATE_TCP_NOT_CONNECT
    /\ m_ullNextTryConnectTime = 0
    /\ m_ullNextPintStatTime = 0
    /\ m_stTcpSocket = TcpSocketCreate(0)
    /\ m_stUdpSocket = [UdpSocketCreate EXCEPT !.reading = TRUE]
    /\ g_failAt = NoTime
    /\ g_ticked = FALSE

\* ------------------------------------------------------------ Server state
\* Session::Session: the accepted socket, LastAlive(0), Dead(true).  closed:
\* Socket.Close() was called; g_heard (history): when the connection was
\* accepted or sent data last; g_since (history): when it was accepted; g_idle
\* (history): the tick closed it for idleness.
Session(id) ==
    [id |-> id, LastAlive |-> 0, Dead |-> TRUE, closed |-> FALSE,
     g_heard |-> NoTime, g_since |-> NoTime, g_idle |-> FALSE]

\* The members of Server after Server::Server.
ServerInit ==
    /\ m_stSessions = << >>
    /\ g_accepted = 0

\* ------------------------------------------------- the estimator on its own
\* One estimator driven by any sequence of Update, Recv and Reset calls.
PingerInit ==
    /\ now = 0
    /\ ClientInit
    /\ ServerInit
    /\ \E i \in 1..MaxInterval, t \in 0..MaxTimeout :
          est = [p \in {"pinger"} |-> Pinger(i, t)]
    /\ g_probes = [p \in {"pinger"} |-> NoHistory]
    /\ ev = [op |-> "Init"]

\* The clock moves on.
Advance(maxTime) ==
    /\ now < maxTime
    /\ now' = now + 1
    /\ g_ticked' = FALSE
    /\ UNCHANGED <<est, g_probes, client, server, ev>>

\* A call of Pinger::Update(now).
PingerUpdate(p) ==
    /\ est[p].m_uNextSeq < MaxSeq
    /\ LET r == Update(est[p], now)
       IN /\ est' = [est EXCEPT ![p] = r.pinger]
          /\ g_probes' = [g_probes EXCEPT ![p] = UpdateHistory(est[p], @, now)]
          /\ ev' = [op |-> "Update", p |-> p, ret |-> r.ret]
    /\ UNCHANGED <<now, g_ticked, client, server>>

\* The Seq and SendTime values an inbound record may carry: any Seq, sent or not,
\* and a SendTime that is the receive time or later (a later one makes the
\* elapsed time of Pinger::Recv wrap).
Seqs == 0..MaxSeq \cup {UInt32Max}
SendTimes == {Max(now - 1, 0), now + 1}

\* A call of Pinger::Recv(packet).
PingerRecv(p) ==
    /\ \E s \in Seqs, st \in SendTimes :
          /\ est' = [est EXCEPT ![p] = Recv(@, PingPacket(s, st), now)]
          /\ g_probes' = [g_probes EXCEPT
                              ![p] = RecvHistory(est[p], @, PingPacket(s, st), now)]
          /\ ev' = [op |-> "Recv", p |-> p, Seq |-> s,
                    credited |-> Credited(est[p], g_probes[p], PingPacket(s, st))]
    /\ UNCHANGED <<now, g_ticked, client, server>>

\* A call of Pinger::Reset().
PingerReset(p) ==
    /\ est' = [est EXCEPT ![p] = Reset(@)]
    /\ g_probes' = [g_probes EXCEPT ![p] = ResetHistory(@)]
    /\ ev' = [op |-> "Reset", p |-> p]
    /\ UNCHANGED <<now, g_ticked, client, server>>

PingerNext ==
    \/ Advance(PingerMaxTime)
    \/ PingerUpdate("pinger")
    \/ PingerRecv("pinger")
    \/ PingerReset("pinger")

PingerSpec == PingerInit /\ [][PingerNext]_vars

\* ------------------------------------- the estimator and the age of probes
\* One estimator driven by Update and Reset calls and by the acknowledgements an
\* echoing peer returns: the record of a probe that is in the window, with the
\* SendTime it was sent with.  Here g_probes holds, for each window slot, the
\* time its probe was sent.
AgeMaxTime == 4

AgeInit ==
    /\ now = 0
    /\ ClientInit
    /\ ServerInit
    /\ \E i \in 1..MaxInterval, t \in 0..MaxTimeout :
          est = [p \in {"pinger"} |-> Pinger(i, t)]
    /\ g_probes = [p \in {"pinger"} |-> << >>]
    /\ ev = [op |-> "Init"]

\* Pinger::Update, as the send times see it: the loop pops from the front, the
\* send appends.
UpdateSendTimes(pg, w, t) ==
    IF Update(pg, t).ret = None THEN w
    ELSE Append(SubSeq(w, Len(w) - Len(HandleTimeout(pg).m_stPingWindow) + 1, Len(w)),
                Update(pg, t).ret.SendTime)

\* A call of Pinger::Update(now).
AgeUpdate(p) ==
    /\ est[p].m_uNextSeq < MaxSeq
    /\ est' = [est EXCEPT ![p] = Update(@, now).pinger]
    /\ g_probes' = [g_probes EXCEPT ![p] = UpdateSendTimes(est[p], @, now)]
    /\ ev' = [op |-> "Update", p |-> p, ret |-> Update(est[p], now).ret]
    /\ UNCHANGED <<now, g_ticked, client, server>>

\* The Seq of the probe in window slot i (from 1).
SeqAt(pg, i) == (pg.m_uNextSeq - Len(pg.m_stPingWindow) + i - 1) % WordMod

\* A call of Pinger::Recv(packet) with the echo of the probe in window slot i.
AgeRecv(p) ==
    /\ \E i \in DOMAIN est[p].m_stPingWindow :
          LET packet == PingPacket(SeqAt(est[p], i), g_probes[p][i])
          IN /\ est' = [est EXCEPT ![p] = Recv(@, packet, now)]
             /\ ev' = [op |-> "Recv", p |-> p, Seq |-> packet.Seq,
                       age |-> now - packet.SendTime,
                       acked |-> Recv(est[p], packet, now).m_uAvailablePacket
                                    # est[p].m_uAvailablePacket]
    /\ UNCHANGED <<now, g_probes, g_ticked, client, server>>

\* A call of Pinger::Reset().
AgeReset(p) ==
    /\ est' = [est EXCEPT ![p] = Reset(@)]
    /\ g_probes' = [g_probes EXCEPT ![p] = << >>]
    /\ ev' = [op |-> "Reset", p |-> p]
    /\ UNCHANGED <<now, g_ticked, client, server>>

AgeAdvance == Advance(AgeMaxTime)

AgeNext ==
    \/ AgeAdvance
    \/ AgeUpdate("pinger")
    \/ AgeRecv("pinger")
    \/ AgeReset("pinger")

AgeSpec == AgeInit /\ [][AgeNext]_vars

\* ------------------------------------------------------------------ Client
\* Milliseconds per step of the clock.
TimeUnit == 10 * 1000
\* The reconnect backoff, 10 * 1000 ms, in clock steps.
ConnectBackoff == (10 * 1000) \div TimeUnit
\* The reporting period, 60 * 1000 ms, in clock steps.
StatPeriod == (60 * 1000) \div TimeUnit

\* History of the probes of one estimator of the client.  sentAt: the SendTime of
\* its latest probe; gap: the SendTime of the latest minus that of the one
\* before; reset: Pinger::Reset ran since the latest probe; between: it ran
\* between the latest two.
NoSpacing == [sentAt |-> NoTime, gap |-> NoTime, reset |-> FALSE, between |-> FALSE]

\* Pinger::Update, as the spacing sees it; ret is what Update returned.
SendSpacing(h, ret) ==
    IF ret = None THEN h
    ELSE [sentAt  |-> ret.SendTime,
          gap     |-> IF h.sentAt = NoTime THEN NoTime ELSE ret.SendTime - h.sentAt,
          reset   |-> FALSE,
          between |-> h.reset]

\* Pinger::Reset, as the spacing sees it.
ResetSpacing(h) == [h EXCEPT !.reset = TRUE]

\* cfg.PingInterval and cfg.PingTimeout of the client, in clock steps.
ClientInterval == 3
ClientTimeout == 5
\* The client's clock stops at ClientMaxTime.
ClientMaxTime == 7
\* TCP socket objects the client creates at most.
MaxSockets == 2

Init ==
    /\ now = 0
    /\ ClientInit
    /\ ServerInit
    /\ est = [p \in {"tcp", "udp"} |-> Pinger(ClientInterval, ClientTimeout)]
    /\ g_probes = [p \in {"tcp", "udp"} |-> NoSpacing]
    /\ ev = [op |-> "Init"]

\* m_stTcpSocket.Connect(m_stServerEndPoint).
Connect(socket) == [socket EXCEPT !.connecting = TRUE]

\* Mutant: the probe is written whatever the channel state.
TcpWrite_IgnoresState(state, tcpPacket) == tcpPacket

\* What OnTick writes on the TCP socket.
TcpWrite(state, tcpPacket) ==
    IF state = STATE_TCP_CONNECTED /\ tcpPacket # None THEN tcpPacket ELSE None

\* History: the Seq of an Optional<PingPacket>, NoProbe for an empty one.
SeqOf(packet) == IF packet = None THEN NoProbe ELSE packet.Seq

\* What OnTick sends on the UDP socket.
UdpSend(udpPacket) == udpPacket

\* Mutant: a connect is tried at every tick that finds the channel not connected.
ShouldConnect_NoBackoff(state, t, nextTry) == state = STATE_TCP_NOT_CONNECT

\* The reconnect condition of OnTick.
ShouldConnect(state, t, nextTry) == state = STATE_TCP_NOT_CONNECT /\ t >= nextTry

\* Mutant: the report waits until the deadline has passed.
ShouldReport_Late(t, nextStat) == t > nextStat

\* The report condition of OnTick.
ShouldReport(t, nextStat) == t >= nextStat

\* What OnTick logs: GetStatistic of both estimators.
Report(tcp, udp) == [tcp |-> GetStatistic(tcp), udp |-> GetStatistic(udp)]

\* Client::OnTick.
OnTick ==
    /\ \A p \in DOMAIN est :
          est[p].m_ullNextSendTime <= now => est[p].m_uNextSeq < MaxSeq
    /\ LET doConnect == ShouldConnect(m_iTcpChannelState, now, m_ullNextTryConnectTime)
           state     == IF doConnect THEN STATE_TCP_CONNECTING ELSE m_iTcpChannelState
           tcp       == Update(est["tcp"], now)
           udp       == Update(est["udp"], now)
           doStat    == ShouldReport(now, m_ullNextPintStatTime)
       IN /\ m_iTcpChannelState' = state
          /\ m_stTcpSocket' = IF doConnect THEN Connect(m_stTcpSocket) ELSE m_stTcpSocket
          /\ m_ullNextPintStatTime' = IF doStat THEN now + StatPeriod
                                      ELSE m_ullNextPintStatTime
          /\ est' = IF doStat
                    THEN [tcp |-> Reset(tcp.pinger), udp |-> Reset(udp.pinger)]
                    ELSE [tcp |-> tcp.pinger, udp |-> udp.pinger]
          /\ g_probes' =
                IF doStat
                THEN [tcp |-> ResetSpacing(SendSpacing(g_probes["tcp"], tcp.ret)),
                      udp |-> ResetSpacing(SendSpacing(g_probes["udp"], udp.ret))]
                ELSE [tcp |-> SendSpacing(g_probes["tcp"], tcp.ret),
                      udp |-> SendSpacing(g_probes["udp"], udp.ret)]
          /\ ev' = [op        |-> "OnTick",
                    connects  |-> IF doConnect THEN 1 ELSE 0,
                    tcpPacket |-> SeqOf(tcp.ret),
                    udpPacket |-> SeqOf(udp.ret),
                    tcpWrite  |-> SeqOf(TcpWrite(state, tcp.ret)),
                    udpSend   |-> SeqOf(UdpSend(udp.ret)),
                    report    |-> IF doStat THEN Report(tcp.pinger, udp.pinger)
                                  ELSE None]
    /\ g_ticked' = TRUE
    /\ UNCHANGED <<now, m_ullNextTryConnectTime, m_stUdpSocket, g_failAt, server>>

\* Mutant: the failure branch forgets the backoff deadline.
ConnectFailed_NoDeadline(t, nextTry) == nextTry

\* The deadline the failure branch of OnTcpConnected sets.
ConnectFailed(t, nextTry) == t + ConnectBackoff

\* Client::OnTcpConnected(err).
OnTcpConnected(err) ==
    /\ m_stTcpSocket.connecting
    /\ IF err = 0
       THEN /\ m_iTcpChannelState' = STATE_TCP_CONNECTED
            /\ est' = [est EXCEPT !["tcp"] = Reset(@)]
            /\ g_probes' = [g_probes EXCEPT !["tcp"] = ResetSpacing(@)]
            /\ m_stTcpSocket' = [m_stTcpSocket EXCEPT !.connecting = FALSE,
                                                      !.reading = TRUE]
            /\ ev' = [op |-> "OnTcpConnected", err |-> err,
                      had |-> est["tcp"].m_uTotalPacket]
            /\ UNCHANGED <<m_ullNextTryConnectTime, g_failAt>>
       ELSE /\ m_ullNextTryConnectTime' = ConnectFailed(now, m_ullNextTryConnectTime)
            /\ m_iTcpChannelState' = STATE_TCP_NOT_CONNECT
            /\ m_stTcpSocket' = [m_stTcpSocket EXCEPT !.connecting = FALSE,
                                                      !.g_failed = TRUE]
            /\ g_failAt' = now
            /\ ev' = [op |-> "OnTcpConnected", err |-> err,
                      again |-> g_failAt # NoTime]
            /\ UNCHANGED <<est, g_probes>>
    /\ UNCHANGED <<now, g_ticked, m_ullNextPintStatTime, m_stUdpSocket, server>>

\* Client::OnTcpError.
OnTcpError ==
    /\ m_stTcpSocket.connecting \/ m_stTcpSocket.reading
    /\ m_stTcpSocket.id + 1 < MaxSockets
    /\ m_stTcpSocket' = TcpSocketCreate(m_stTcpSocket.id + 1)
    /\ m_iTcpChannelState' = STATE_TCP_NOT_CONNECT
    /\ m_ullNextTryConnectTime' = now + ConnectBackoff
    /\ g_failAt' = now
    /\ ev' = [op |-> "OnTcpError", again |-> g_failAt # NoTime]
    /\ UNCHANGED <<now, est, g_probes, g_ticked, m_ullNextPintStatTime, m_stUdpSocket,
                   server>>

\* Client::OnTcpDataEof.
OnTcpDataEof ==
    /\ m_stTcpSocket.reading
    /\ m_stTcpSocket.id + 1 < MaxSockets
    /\ m_stTcpSocket' = TcpSocketCreate(m_stTcpSocket.id + 1)
    /\ m_iTcpChannelState' = STATE_TCP_NOT_CONNECT
    /\ m_ullNextTryConnectTime' = now + ConnectBackoff
    /\ g_failAt' = now
    /\ ev' = [op |-> "OnTcpDataEof", again |-> g_failAt # NoTime]
    /\ UNCHANGED <<now, est, g_probes, g_ticked, m_ullNextPintStatTime, m_stUdpSocket,
                   server>>

\* Inbound bytes: ok tells whether Mdr::ReadStruct decodes them or throws, packet
\* is what the local PingPacket holds when it returns or throws.
Datas ==
    {[ok |-> ok, packet |-> PingPacket(s, Max(now - 1, 0))] :
        ok \in BOOLEAN, s \in Seqs}

\* Mutant: bytes that do not decode reset the estimator.
OnData_ResetsOnFailure(pg, data, t) ==
    IF data.ok THEN Recv(pg, data.packet, t) ELSE Reset(pg)

\* Mutant: the packet reaches Recv even when decoding threw.
OnData_RecvsAnyway(pg, data, t) == Recv(pg, data.packet, t)

\* The try block of OnTcpData / OnUdpData and its catch.
OnData(pg, data, t) ==
    IF data.ok THEN Recv(pg, data.packet, t) ELSE pg

\* History of a data callback.
DataEvent(op, pg, data) ==
    [op |-> op, decoded |-> data.ok,
     marked |-> data.ok /\ ~RecvIgnores(pg, data.packet)]

\* Client::OnTcpData.
OnTcpData ==
    /\ m_stTcpSocket.reading
    /\ \E data \in Datas :
          /\ est' = [est EXCEPT !["tcp"] = OnData(@, data, now)]
          /\ ev' = DataEvent("OnTcpData", est["tcp"], data)
    /\ UNCHANGED <<now, g_probes, g_ticked, client, server>>

\* Client::OnUdpData.
OnUdpData ==
    /\ m_stUdpSocket.reading
    /\ \E data \in Datas :
          /\ est' = [est EXCEPT !["udp"] = OnData(@, data, now)]
          /\ ev' = DataEvent("OnUdpData", est["udp"], data)
    /\ UNCHANGED <<now, g_probes, g_ticked, client, server>>

\* Client::OnUdpError.
OnUdpError ==
    /\ m_stUdpSocket' = [UdpSocketCreate EXCEPT !.reading = TRUE]
    /\ ev' = [op |-> "OnUdpError"]
    /\ UNCHANGED <<now, est, g_probes, g_ticked, m_iTcpChannelState, m_ullNextTryConnectTime,
                   m_ullNextPintStatTime, m_stTcpSocket, g_failAt, server>>

\* The values of err the connect callback is given: 0 is success.
Errs == {0, 1}

\* The tick timer has a period of 100 ms, far below TimeUnit: the clock does not
\* reach its next value before OnTick has run at this one.
ClientAdvance == g_ticked /\ Advance(ClientMaxTime)

Next ==
    \/ ClientAdvance
    \/ OnTick
    \/ \E err \in Errs : OnTcpConnected(err)
    \/ OnTcpError
    \/ OnTcpData
    \/ OnTcpDataEof
    \/ OnUdpData
    \/ OnUdpError

Spec == Init /\ [][Next]_vars

\* ------------------------------------------------------------------ Server
\* Milliseconds per step of the server's clock.
ServerTimeUnit == 30 * 1000
\* The idle timeout of a session, 60 * 1000 ms, in clock steps.
SessionIdle == (60 * 1000) \div ServerTimeUnit
\* The server's clock stops at ServerMaxTime, late enough for a session to idle
\* out and be erased.
ServerMaxTime == SessionIdle + 2
\* Connections the server accepts at most.
MaxSessions == 2

ServerSpecInit ==
    /\ now = 0
    /\ ClientInit
    /\ ServerInit
    /\ est = << >>
    /\ g_probes = << >>
    /\ ev = [op |-> "Init"]

\* Mutant: a dead session is left in the registry.
ShouldErase_Never(session) == FALSE

\* The first test of the loop of Server::OnTick.
ShouldErase(session) == session.Dead

\* Mutant: the idle test forgets the timeout.
SessionExpired_AtOnce(session, t) == session.LastAlive <= t

\* The second test of the loop of Server::OnTick.
SessionExpired(session, t) == session.LastAlive + SessionIdle <= t

\* Socket.Close() and Dead = true of the loop of Server::OnTick.
Expire(session) == [session EXCEPT !.closed = TRUE, !.Dead = TRUE, !.g_idle = TRUE]

\* Mutant: an idle session is erased in the pass that finds it idle.
TickSessions_ErasesIdle(sessions, t) ==
    SelectSeq(sessions, LAMBDA session :
        ~ShouldErase(session) /\ ~SessionExpired(session, t))

\* The loop of Server::OnTick over m_stSessions.
RECURSIVE TickSessions(_, _)
TickSessions(sessions, t) ==
    IF sessions = << >> THEN << >>
    ELSE IF ShouldErase(Head(sessions)) THEN TickSessions(Tail(sessions), t)
    ELSE <<IF SessionExpired(Head(sessions), t) THEN Expire(Head(sessions))
           ELSE Head(sessions)>> \o TickSessions(Tail(sessions), t)

\* The ids of the sessions of a registry.
Ids(sessions) == {sessions[i].id : i \in DOMAIN sessions}

\* The sessions of a registry, as a set.
Range(sessions) == {sessions[i] : i \in DOMAIN sessions}

\* Server::OnTick.  History: the sessions the pass erased and those it closed.
ServerOnTick ==
    /\ m_stSessions' = TickSessions(m_stSessions, now)
    /\ g_ticked' = TRUE
    /\ ev' = [op     |-> "ServerOnTick",
              erased |-> {session \in Range(m_stSessions) :
                            session.id \notin Ids(TickSessions(m_stSessions, now))},
              closed |-> {session.id : session \in
                            Range(TickSessions(m_stSessions, now)) \ Range(m_stSessions)}]
    /\ UNCHANGED <<now, est, g_probes, client, g_accepted>>

\* Server::OnTcpConnection.
OnTcpConnection ==
    /\ g_accepted < MaxSessions
    /\ m_stSessions' = Append(m_stSessions,
                              [Session(g_accepted) EXCEPT !.LastAlive = now,
                                                          !.Dead = FALSE,
                                                          !.g_heard = now,
                                                          !.g_since = now])
    /\ g_accepted' = g_accepted + 1
    /\ ev' = [op |-> "OnTcpConnection", id |-> g_accepted]
    /\ UNCHANGED <<now, est, g_probes, g_ticked, client>>

\* The socket of the session still delivers callbacks.
Delivers(session) == ~session.closed

\* Session::OnTcpError.
SessionOnTcpError(i) ==
    /\ Delivers(m_stSessions[i])
    /\ m_stSessions' = [m_stSessions EXCEPT ![i].Dead = TRUE]
    /\ ev' = [op |-> "SessionOnTcpError", id |-> m_stSessions[i].id]
    /\ UNCHANGED <<now, est, g_probes, g_ticked, client, g_accepted>>

\* Mutant: data does not refresh LastAlive.
Touch_Forgets(session, t) == session

\* LastAlive = RunLoop::Now() of Session::OnTcpData.
Touch(session, t) == [session EXCEPT !.LastAlive = t]

\* Session::OnTcpData.
SessionOnTcpData(i) ==
    /\ Delivers(m_stSessions[i])
    /\ m_stSessions' = [m_stSessions EXCEPT
                            ![i] = [Touch(@, now) EXCEPT !.g_heard = now]]
    /\ ev' = [op |-> "SessionOnTcpData", id |-> m_stSessions[i].id]
    /\ UNCHANGED <<now, est, g_probes, g_ticked, client, g_accepted>>

\* Session::OnTcpDataEof.
SessionOnTcpDataEof(i) ==
    /\ Delivers(m_stSessions[i])
    /\ m_stSessions' = [m_stSessions EXCEPT ![i].closed = TRUE, ![i].Dead = TRUE]
    /\ ev' = [op |-> "SessionOnTcpDataEof", id |-> m_stSessions[i].id]
    /\ UNCHANGED <<now, est, g_probes, g_ticked, client, g_accepted>>

\* The clock of the server.  The tick timer has a period of 1000 ms, below
\* ServerTimeUnit: the clock does not reach its next value before OnTick has run at
\* this one.
ServerAdvance == g_ticked /\ Advance(ServerMaxTime)

ServerNext ==
    \/ ServerAdvance
    \/ ServerOnTick
    \/ OnTcpConnection
    \/ \E i \in DOMAIN m_stSessions : SessionOnTcpError(i)
    \/ \E i \in DOMAIN m_stSessions : SessionOnTcpData(i)
    \/ \E i \in DOMAIN m_stSessions : SessionOnTcpDataEof(i)

ServerSpec == ServerSpecInit /\ [][ServerNext]_vars

\* ------------------------------------------------------------ step kinds
\* A step of Client::OnTick.
TickStep == now' = now /\ ev'.op = "OnTick"

\* A step of one of the three TCP failure handlers.
FailureStep ==
    /\ now' = now
    /\ \/ ev'.op \in {"OnTcpError", "OnTcpDataEof"}
       \/ ev'.op = "OnTcpConnected" /\ ev'.err # 0

\* A step of a data callback whose bytes did not decode.
DecodeFailureStep ==
    /\ now' = now
    /\ ev'.op \in {"OnTcpData", "OnUdpData"}
    /\ ~ev'.decoded

\* ------------------------------------------------------- estimator claims
Estimators == DOMAIN g_probes

\* The window entries not acknowledged so far.
Unacked(pg) == Cardinality({i \in 1..Len(pg.m_stPingWindow) : ~pg.m_stPingWindow[i]})

\* The window slot (from 0) that holds the probe with Seq s, computed in the
\* integers: slot i holds Seq m_uNextSeq - len + i.
SlotOf(pg, s) == s - (pg.m_uNextSeq - Len(pg.m_stPingWindow))

\* The record's Seq is older than the window, not sent yet, or already acknowledged.
StaleOrDuplicate(pg, s) ==
    \/ s < pg.m_uNextSeq - Len(pg.m_stPingWindow)
    \/ s >= pg.m_uNextSeq
    \/ pg.m_stPingWindow[SlotOf(pg, s) + 1]

\* C1: in every reachable state of an estimator driven by any sequence of
\* Update, Recv and Reset, PacketLost + AvailablePacket <= TotalPacket.
C1_LostPlusAckedAtMostSent ==
    \A p \in Estimators :
        est[p].m_uPacketLost + est[p].m_uAvailablePacket <= est[p].m_uTotalPacket

\* C1 witness: probes were lost and acknowledged, and every probe sent is counted.
C1_Witness ==
    \E p \in Estimators :
        /\ est[p].m_uPacketLost >= 1
        /\ est[p].m_uAvailablePacket >= 1
        /\ est[p].m_uPacketLost + est[p].m_uAvailablePacket = est[p].m_uTotalPacket

\* C2: a Recv whose Seq is older than m_uNextSeq - len(window), is not sent yet
\* (Seq >= m_uNextSeq) or addresses an acknowledged slot changes nothing of the
\* estimator: counters, window and m_uNextSeq stay as they are.
C2_StaleOrDuplicateAckIsNoOp ==
    [][(now' = now /\ ev'.op = "Recv" /\ StaleOrDuplicate(est[ev'.p], ev'.Seq))
          => est' = est]_vars

\* C2 witness: a Recv for a probe that is in the window and already acknowledged
\* has just returned early.
C2_Witness ==
    /\ ev.op = "Recv"
    /\ ev.credited = NoProbe
    /\ SlotOf(est[ev.p], ev.Seq) \in 0..(Len(est[ev.p].m_stPingWindow) - 1)
    /\ est[ev.p].m_stPingWindow[SlotOf(est[ev.p], ev.Seq) + 1]
    /\ est[ev.p].m_uAvailablePacket >= 1

\* C3: every probe is counted at most once in PacketLost + AvailablePacket, over
\* Resets too; window slot i holds the probe with Seq m_uNextSeq - len + i; and a
\* Recv carrying Seq s marks only the slot of probe s.
C3_EachProbeCountedOnce ==
    \A p \in Estimators :
        /\ \A s \in 0..MaxSeq : g_probes[p].lostOf[s] + g_probes[p].ackedOf[s] <= 1
        /\ Len(g_probes[p].wseq) = Len(est[p].m_stPingWindow)
        /\ \A i \in 1..Len(g_probes[p].wseq) : SlotOf(est[p], g_probes[p].wseq[i]) = i - 1
        /\ (ev.op = "Recv" /\ ev.p = p /\ ev.credited # NoProbe) => ev.credited = ev.Seq

\* C3 witness: a Recv has just marked a slot that is not the newest one, after an
\* earlier probe was counted lost and another acknowledged.
C3_Witness ==
    /\ ev.op = "Recv"
    /\ ev.credited # NoProbe
    /\ ev.credited < est[ev.p].m_uNextSeq - 1
    /\ \E s \in 0..MaxSeq : g_probes[ev.p].lostOf[s] = 1
    /\ est[ev.p].m_uAvailablePacket >= 2

\* C4 as claimed: once more than m_uTimeout (> 0) has passed since the last send,
\* PacketLost + AvailablePacket = TotalPacket.
C4_Original ==
    \A p \in Estimators :
        (/\ est[p].m_uTimeout > 0
         /\ est[p].m_uTotalPacket > 0
         /\ now > (est[p].m_ullNextSendTime - est[p].m_uInterval) + est[p].m_uTimeout)
            => est[p].m_uPacketLost + est[p].m_uAvailablePacket = est[p].m_uTotalPacket

\* C4 as amended: TotalPacket = PacketLost + AvailablePacket + the unacknowledged
\* entries still in the window, in every reachable state; the passing of time
\* alone scores no probe.
C4_SentIsLostAckedOrInWindow ==
    \A p \in Estimators :
        est[p].m_uTotalPacket =
            est[p].m_uPacketLost + est[p].m_uAvailablePacket + Unacked(est[p])

\* C4 witness: more than m_uTimeout after the last send a probe is still in the
\* window, unacknowledged and counted neither lost nor acknowledged, while an
\* earlier one was counted lost.
C4_Witness ==
    \E p \in Estimators :
        /\ est[p].m_uTotalPacket > 0
        /\ now > (est[p].m_ullNextSendTime - est[p].m_uInterval) + est[p].m_uTimeout
        /\ Unacked(est[p]) >= 1
        /\ est[p].m_uPacketLost >= 1

\* What GetStatistic returns when nothing is counted.
ZeroStatistic ==
    [ TotalPacket |-> 0, PacketLost |-> 0, AvailablePacket |-> 0,
      LatencyTotal |-> 0, MaxLatency |-> 0, MinLatency |-> 0 ]

\* C5: after Reset, from any state, GetStatistic is all zero, the window is empty,
\* m_uNextSeq is what it was, and Update(t) returns a probe for every t, whose Seq
\* is greater than every Seq sent before the Reset.
C5_ResetClearsAndNextUpdateSends ==
    [][(now' = now /\ ev'.op = "Reset") =>
          LET pg == est'[ev'.p]
          IN /\ GetStatistic(pg) = ZeroStatistic
             /\ pg.m_stPingWindow = << >>
             /\ pg.m_uNextSeq = est[ev'.p].m_uNextSeq
             /\ \A t \in 0..(now + 1) :
                   /\ Update(pg, t).ret # None
                   /\ \A s \in g_probes[ev'.p].sent : Update(pg, t).ret.Seq > s]_vars

\* C5 witness: Reset has just run on an estimator that had sent probes, was not
\* yet due to send again, and had counted a loss and an acknowledgment.
C5_Witness ==
    /\ ev.op = "Reset"
    /\ g_probes[ev.p].sent # {}
    /\ \E s \in 0..MaxSeq : g_probes[ev.p].lostOf[s] = 1
    /\ \E s \in 0..MaxSeq : g_probes[ev.p].ackedOf[s] = 1
    /\ est[ev.p].m_stPingWindow = << >>
    /\ now > 0

\* ceil(a / b) for b > 0.
CeilDiv(a, b) == (a + b - 1) \div b

\* C6: for m_uInterval > 0 and m_uTimeout > 0 the window never holds more than
\* ceil(m_uTimeout / m_uInterval) entries, that is len * m_uInterval <
\* m_uTimeout + m_uInterval.
C6_WindowBounded ==
    \A p \in Estimators :
        (est[p].m_uInterval > 0 /\ est[p].m_uTimeout > 0) =>
            /\ Len(est[p].m_stPingWindow) <= CeilDiv(est[p].m_uTimeout, est[p].m_uInterval)
            /\ Len(est[p].m_stPingWindow) * est[p].m_uInterval
                  < est[p].m_uTimeout + est[p].m_uInterval

\* C6 witness: the window is full, at ceil(m_uTimeout / m_uInterval) >= 2 entries,
\* after an eviction.
C6_Witness ==
    \E p \in Estimators :
        /\ est[p].m_uInterval > 0 /\ est[p].m_uTimeout > 0
        /\ Len(est[p].m_stPingWindow) = CeilDiv(est[p].m_uTimeout, est[p].m_uInterval)
        /\ Len(est[p].m_stPingWindow) >= 2
        /\ est[p].m_uTotalPacket > Len(est[p].m_stPingWindow)

\* ---------------------------------------------------------- client claims
\* C7: a connect failure, channel error or remote EOF at time t leaves the state
\* NotConnected with the retry deadline at t + backoff; a tick before the
\* deadline issues no connect, the first tick at or after it issues exactly one
\* and moves to Connecting, and ticks in the other states issue none. A second
\* failure sets the deadline from its own time again.
C7_ReconnectAfterBackoff ==
    [][/\ FailureStep =>
            /\ m_iTcpChannelState' = STATE_TCP_NOT_CONNECT
            /\ m_ullNextTryConnectTime' = now + ConnectBackoff
            /\ g_failAt' = now
       /\ TickStep /\ m_iTcpChannelState = STATE_TCP_NOT_CONNECT /\ g_failAt # NoTime =>
            IF now < g_failAt + ConnectBackoff
            THEN /\ ev'.connects = 0
                 /\ m_iTcpChannelState' = STATE_TCP_NOT_CONNECT
                 /\ ~m_stTcpSocket'.connecting
            ELSE /\ ev'.connects = 1
                 /\ m_iTcpChannelState' = STATE_TCP_CONNECTING
                 /\ m_stTcpSocket'.connecting
       /\ TickStep /\ m_iTcpChannelState # STATE_TCP_NOT_CONNECT =>
            /\ ev'.connects = 0
            /\ m_iTcpChannelState' = m_iTcpChannelState
      ]_vars

\* A channel error or EOF that follows an earlier failure and the reconnect the
\* tick issued after its backoff.
C7_Witness ==
    /\ ev.op \in {"OnTcpError", "OnTcpDataEof"}
    /\ ev.again
    /\ now >= ConnectBackoff
    /\ m_iTcpChannelState = STATE_TCP_NOT_CONNECT
    /\ m_ullNextTryConnectTime = now + ConnectBackoff

\* C8: every TCP failure handler replaces the socket object by a fresh one, and
\* no tick calls Connect on an object a failure was reported on.
C8_FreshChannelAfterEveryFailure ==
    [][/\ FailureStep =>
            /\ m_stTcpSocket'.id # m_stTcpSocket.id
            /\ ~m_stTcpSocket'.g_failed
       /\ TickStep /\ ev'.connects = 1 => ~m_stTcpSocket.g_failed
      ]_vars

\* C9: a tick calls Update on both estimators in every TCP state; the TCP probe
\* is written iff one was produced and the state is Connected; the UDP probe is
\* sent whenever one was produced; the TCP failure handlers leave the UDP
\* estimator as it was.
C9_TickDrivesBothUdpAlwaysSent ==
    [][/\ TickStep =>
            /\ ev'.tcpPacket = SeqOf(Update(est["tcp"], now).ret)
            /\ ev'.udpPacket = SeqOf(Update(est["udp"], now).ret)
            /\ est' = [p \in {"tcp", "udp"} |->
                          IF ev'.report # None THEN Reset(Update(est[p], now).pinger)
                          ELSE Update(est[p], now).pinger]
            /\ ev'.tcpWrite =
                  IF ev'.tcpPacket # NoProbe /\ m_iTcpChannelState = STATE_TCP_CONNECTED
                  THEN ev'.tcpPacket ELSE NoProbe
            /\ ev'.udpSend = ev'.udpPacket
       /\ FailureStep => est'["udp"] = est["udp"]
      ]_vars

\* After a TCP failure, a tick in a state other than Connected: both estimators
\* produced a probe, the TCP one was not written, the UDP one was sent.
C9_Witness ==
    /\ ev.op = "OnTick"
    /\ g_failAt # NoTime
    /\ m_iTcpChannelState # STATE_TCP_CONNECTED
    /\ ev.tcpPacket # NoProbe
    /\ ev.tcpWrite = NoProbe
    /\ ev.udpPacket # NoProbe
    /\ ev.udpSend = ev.udpPacket

\* C10: a data callback whose bytes do not decode changes neither estimator, nor
\* the TCP channel state, nor the sockets, nor the deadlines.
C10_DecodeFailureContained ==
    [][DecodeFailureStep => UNCHANGED <<est, client>>]_vars

\* Bytes that do not decode arrive on the connected TCP channel while its
\* estimator awaits an acknowledgement.
C10_Witness ==
    /\ ev.op = "OnTcpData"
    /\ ~ev.decoded
    /\ m_iTcpChannelState = STATE_TCP_CONNECTED
    /\ m_stTcpSocket.reading
    /\ \E i \in 1..Len(est["tcp"].m_stPingWindow) :
          ~est["tcp"].m_stPingWindow[i]

\* ---------------------------------------------------------- server claims
\* A step of Server::OnTick.
ServerTickStep == now' = now /\ ev'.op = "ServerOnTick"

\* The session with this id in a registry that holds it.
SessionOf(sessions, id) == CHOOSE session \in Range(sessions) : session.id = id

\* C11: a tick closes and marks Dead every live session that was neither accepted
\* nor heard from for the idle timeout, and keeps it in the registry; it leaves
\* alone every live session heard from more recently; and it removes every
\* session that was Dead when it started, so an idle session leaves the registry
\* in the tick after the one that marked it.
C11_IdleSessionClosedThenReaped ==
    [][ServerTickStep =>
         \A session \in Range(m_stSessions) :
            IF session.Dead
            THEN session.id \notin Ids(m_stSessions')
            ELSE /\ session.id \in Ids(m_stSessions')
                 /\ IF session.g_heard + SessionIdle <= now
                    THEN SessionOf(m_stSessions', session.id) = Expire(session)
                    ELSE SessionOf(m_stSessions', session.id) = session
      ]_vars

\* A tick has just removed a session that an earlier tick closed for idleness.
C11_Witness ==
    /\ ev.op = "ServerOnTick"
    /\ \E session \in ev.erased :
          /\ session.g_idle
          /\ session.g_heard + SessionIdle <= now
          /\ session.id \notin Ids(m_stSessions)

\* ------------------------------------------------- claims about probe age
\* C12: after an Update that emits a probe, at the time of that Update no window
\* entry is older than Timeout.
C12_NoEntryOlderThanTimeoutAfterTick ==
    \A p \in DOMAIN est :
        (/\ ev.op = "Update"
         /\ ev.ret # None
         /\ est[p].m_uTimeout > 0)
        => \A i \in DOMAIN g_probes[p] :
               ev.ret.SendTime - g_probes[p][i] <= est[p].m_uTimeout

\* C13: the acknowledgement of a probe that arrives more than Timeout after the
\* probe was sent does not increment m_uAvailablePacket, even when no Update is
\* overdue.
C13_NoAckAfterTimeout ==
    \A p \in DOMAIN est :
        (/\ ev.op = "Recv"
         /\ est[p].m_uTimeout > 0
         /\ est[p].m_ullNextSendTime >= now
         /\ ev.age > est[p].m_uTimeout)
        => ~ev.acked

\* A step of Client::OnTcpConnected(0).
ConnectedStep == now' = now /\ ev'.op = "OnTcpConnected" /\ ev'.err = 0

\* C14: a successful connect callback moves the client to Connected and leaves
\* the TCP estimator with an empty window and all counters zero; the UDP
\* estimator is as it was; and the window of the TCP estimator never holds more
\* entries than probes counted since its last reset, so what it counts are
\* probes sent after the connect.
C14_ConnectResetsTcpEstimator ==
    [][/\ ConnectedStep =>
            /\ m_iTcpChannelState' = STATE_TCP_CONNECTED
            /\ m_stTcpSocket'.reading
            /\ est'["tcp"].m_stPingWindow = << >>
            /\ GetStatistic(est'["tcp"]) = ZeroStatistic
            /\ est'["tcp"].m_uNextSeq = est["tcp"].m_uNextSeq
            /\ est'["udp"] = est["udp"]
       /\ Len(est'["tcp"].m_stPingWindow) <= est'["tcp"].m_uTotalPacket
      ]_vars

\* The connect succeeded while the TCP estimator had counted probes sent before
\* it; the UDP estimator still holds its own.
C14_Witness ==
    /\ ev.op = "OnTcpConnected"
    /\ ev.err = 0
    /\ ev.had > 0
    /\ m_iTcpChannelState = STATE_TCP_CONNECTED
    /\ est["tcp"].m_uTotalPacket = 0
    /\ est["udp"].m_uTotalPacket > 0
    /\ est["udp"].m_stPingWindow # << >>

\* C15: a tick reports iff now >= m_ullNextPintStatTime.  A reporting tick logs
\* the statistics both estimators hold after their Update and before any reset,
\* resets both, and sets the deadline to now + the period, which is at least a
\* period after the report before; any other tick resets neither and keeps the
\* deadline.
C15_ReportThenResetBoth ==
    [][TickStep =>
         LET tcp == Update(est["tcp"], now).pinger
             udp == Update(est["udp"], now).pinger
         IN IF now >= m_ullNextPintStatTime
            THEN /\ ev'.report = [tcp |-> GetStatistic(tcp), udp |-> GetStatistic(udp)]
                 /\ \A p \in {"tcp", "udp"} :
                       /\ GetStatistic(est'[p]) = ZeroStatistic
                       /\ est'[p].m_stPingWindow = << >>
                 /\ m_ullNextPintStatTime' = now + StatPeriod
                 /\ m_ullNextPintStatTime' >= m_ullNextPintStatTime + StatPeriod
            ELSE /\ ev'.report = None
                 /\ est' = [tcp |-> tcp, udp |-> udp]
                 /\ m_ullNextPintStatTime' = m_ullNextPintStatTime
      ]_vars

\* The second report of a run: it logs probes and an acknowledgement counted
\* since the first, and both estimators are reset.
C15_Witness ==
    /\ ev.op = "OnTick"
    /\ ev.report # None
    /\ now >= StatPeriod
    /\ ev.report.tcp.TotalPacket > 0
    /\ ev.report.udp.TotalPacket > 0
    /\ ev.report.udp.AvailablePacket > 0
    /\ est["tcp"].m_uTotalPacket = 0
    /\ est["udp"].m_uTotalPacket = 0
    /\ m_ullNextPintStatTime = now + StatPeriod

\* C16: the error callback and the EOF callback of a session both close the
\* session's socket and set Dead, and neither removes a session from the registry.
C16_ErrorAndEofCloseAndMarkDead ==
    [][(now' = now /\ ev'.op \in {"SessionOnTcpError", "SessionOnTcpDataEof"}) =>
          /\ Len(m_stSessions') = Len(m_stSessions)
          /\ Ids(m_stSessions') = Ids(m_stSessions)
          /\ SessionOf(m_stSessions', ev'.id).Dead
          /\ SessionOf(m_stSessions', ev'.id).closed
      ]_vars

\* C17: Dead never goes back to false; a session leaves the registry only in a
\* step of Server::OnTick and only if it was Dead when the tick started; and
\* every session that is Dead when a tick starts is gone when it ends.
C17_DeadIsTerminalAndReapedByTick ==
    [][\A session \in Range(m_stSessions) :
          /\ (session.Dead /\ session.id \in Ids(m_stSessions'))
                => SessionOf(m_stSessions', session.id).Dead
          /\ session.id \notin Ids(m_stSessions')
                => ServerTickStep /\ session.Dead
          /\ (ServerTickStep /\ session.Dead)
                => session.id \notin Ids(m_stSessions')
      ]_vars

\* A tick has just erased a session that an error had marked Dead, and has kept
\* a live one.
C17_Witness ==
    /\ ev.op = "ServerOnTick"
    /\ \E session \in ev.erased : session.Dead /\ ~session.closed
    /\ \E session \in Range(m_stSessions) : ~session.Dead

\* C18: accept sets LastAlive = now and Dead = false, every data callback sets
\* LastAlive = now, so LastAlive is the time the session was accepted or heard
\* from last; and a tick leaves a live session live and in the registry unless
\* that time is the idle timeout or more in the past.
C18_ActiveSessionNeverExpired ==
    [][/\ (now' = now /\ ev'.op = "OnTcpConnection") =>
            /\ SessionOf(m_stSessions', ev'.id).LastAlive = now
            /\ ~SessionOf(m_stSessions', ev'.id).Dead
       /\ (now' = now /\ ev'.op = "SessionOnTcpData") =>
            SessionOf(m_stSessions', ev'.id).LastAlive = now
       /\ \A session \in Range(m_stSessions') : session.LastAlive = session.g_heard
       /\ ServerTickStep =>
            \A session \in Range(m_stSessions) :
               (~session.Dead /\ session.g_heard + SessionIdle > now) =>
                    /\ session.id \in Ids(m_stSessions')
                    /\ ~SessionOf(m_stSessions', session.id).Dead
                    /\ ~SessionOf(m_stSessions', session.id).closed
      ]_vars

\* A tick has left alive a session accepted the idle timeout or longer ago: it
\* sent data since.
C18_Witness ==
    /\ ev.op = "ServerOnTick"
    /\ \E session \in Range(m_stSessions) :
          /\ ~session.Dead
          /\ ~session.closed
          /\ session.g_since + SessionIdle <= now
          /\ session.g_heard + SessionIdle > now
          /\ session.LastAlive = session.g_heard

\* None of TotalPacket, PacketLost, AvailablePacket, LatencyTotal and MaxLatency
\* is smaller in estimator b than in estimator a.
NotDecreased(a, b) ==
    /\ a.m_uTotalPacket <= b.m_uTotalPacket
    /\ a.m_uPacketLost <= b.m_uPacketLost
    /\ a.m_uAvailablePacket <= b.m_uAvailablePacket
    /\ a.m_uLatencyTotal <= b.m_uLatencyTotal
    /\ a.m_uMaxLatency <= b.m_uMaxLatency

\* A step of Client::OnTick that reports.
ReportStep == TickStep /\ ev'.report # None

\* C19 as stated: in every step but that of a reporting tick, no counter of
\* either estimator decreases.
C19_Original ==
    [][~ReportStep =>
          \A p \in {"tcp", "udp"} : NotDecreased(est[p], est'[p])]_vars

\* C19: in every step but that of a reporting tick, no counter of the UDP
\* estimator decreases, and none of the TCP estimator does unless the step is a
\* successful connect callback, which sets them all to zero.
C19_CountersGrowUntilReportOrConnect ==
    [][~ReportStep =>
          /\ NotDecreased(est["udp"], est'["udp"])
          /\ IF ConnectedStep
             THEN GetStatistic(est'["tcp"]) = ZeroStatistic
             ELSE NotDecreased(est["tcp"], est'["tcp"])
      ]_vars

\* In the middle of a reporting period a successful connect has zeroed the
\* counters of the TCP estimator; the UDP estimator keeps its probes and an
\* acknowledgement.
C19_Witness ==
    /\ ev.op = "OnTcpConnected"
    /\ ev.err = 0
    /\ ev.had > 0
    /\ 0 < now
    /\ now < m_ullNextPintStatTime
    /\ est["tcp"].m_uTotalPacket = 0
    /\ est["udp"].m_uTotalPacket > 0
    /\ est["udp"].m_uAvailablePacket > 0

\* C20: whenever an estimator has counted an acknowledgement, what GetStatistic
\* returns satisfies MinLatency <= MaxLatency and
\* AvailablePacket * MinLatency <= LatencyTotal <= AvailablePacket * MaxLatency.
C20_LatencyAggregatesConsistent ==
    \A p \in DOMAIN est :
        LET stat == GetStatistic(est[p])
        IN stat.AvailablePacket > 0 =>
              /\ stat.MinLatency <= stat.MaxLatency
              /\ stat.AvailablePacket * stat.MinLatency <= stat.LatencyTotal
              /\ stat.LatencyTotal <= stat.AvailablePacket * stat.MaxLatency

\* ----------------------------------------------- claims about probe spacing
\* C21 as stated: the latest two probes of each estimator of the client are at
\* least m_uInterval apart.
C21_Original ==
    \A p \in {"tcp", "udp"} :
        g_probes[p].gap # NoTime => g_probes[p].gap >= est[p].m_uInterval

\* C21: the latest two probes of each estimator of the client are at least
\* m_uInterval apart unless Pinger::Reset ran between them.
C21_SpacedUnlessResetBetween ==
    \A p \in {"tcp", "udp"} :
        (g_probes[p].gap # NoTime /\ ~g_probes[p].between)
            => g_probes[p].gap >= est[p].m_uInterval

\* The UDP estimator has sent two probes a full interval apart with no reset
\* between them, and the TCP estimator two probes closer than the interval, a
\* reset between them.
C21_Witness ==
    /\ g_probes["udp"].gap # NoTime
    /\ ~g_probes["udp"].between
    /\ g_probes["udp"].gap >= est["udp"].m_uInterval
    /\ g_probes["tcp"].gap # NoTime
    /\ g_probes["tcp"].between
    /\ g_probes["tcp"].gap < est["tcp"].m_uInterval

====
